---- MODULE Spec2Model ----
(***************************************************************************)
(* Model of soprano/calculate/xrd/xrd.py: the XRDCalculator object         *)
(* (peak-function registry and powder-peak enumeration), the spectrum      *)
(* simulator xrd_spec_simul and the Le Bail intensity refiner              *)
(* xrd_leBail_Ifit.                                                        *)
(*                                                                         *)
(* Floating-point numbers are modelled as binary fixed-point numbers with  *)
(* the non-finite values of IEEE arithmetic.  A value is a pair <<m, t>>:  *)
(* t = 1 is the finite number m/Scale, and <<1,0>>, <<-1,0>>, <<0,0>> are  *)
(* +inf, -inf and NaN.  Every operation rounds to the nearest              *)
(* representable number, overflows to an infinity beyond MaxRaw/Scale and  *)
(* follows numpy for the non-finite cases (x/0 = +-inf, 0/0 = NaN,         *)
(* inf*0 = NaN, comparisons with NaN are false).  Signed zeros are not     *)
(* modelled.                                                               *)
(***************************************************************************)
EXTENDS Integers, Sequences, FiniteSets, TLC

(***************************************************************************)
(* Number format and arithmetic (numpy float semantics)                    *)
(***************************************************************************)
Scale == 2 * 128

MaxRaw == 64 * Scale

Sign(x) == IF x > 0 THEN 1 ELSE IF x < 0 THEN -1 ELSE 0

Abs(x) == IF x < 0 THEN -x ELSE x

RECURSIVE GCD(_, _)
GCD(a, b) == IF b = 0 THEN a ELSE GCD(b, a % b)

\* n/d rounded to the nearest integer, d # 0
RDiv(n, d) == Sign(n) * Sign(d) * ((2 * Abs(n) + Abs(d)) \div (2 * Abs(d)))

NaN == <<0, 0>>

Inf == <<1, 0>>

NegInf == <<-1, 0>>

Sat(m) ==
    IF m > MaxRaw THEN Inf ELSE IF m < -MaxRaw THEN NegInf ELSE <<m, 1>>

Num(k) == <<k * Scale, 1>>

Frac(n, d) == <<RDiv(n * Scale, d), 1>>

Zero == Num(0)

One == Num(1)

IsNaN(a) == a[1] = 0 /\ a[2] = 0

IsFinite(a) == a[2] = 1

IsInf(a) == a[2] = 0 /\ a[1] # 0

IsZero(a) == a[1] = 0 /\ a[2] = 1

FNeg(a) == <<-a[1], a[2]>>

FAdd(a, b) ==
    IF IsNaN(a) \/ IsNaN(b) THEN NaN
    ELSE IF IsFinite(a) /\ IsFinite(b) THEN Sat(a[1] + b[1])
    ELSE IF IsInf(a) /\ IsInf(b) THEN (IF a[1] = b[1] THEN a ELSE NaN)
    ELSE IF IsInf(a) THEN a
    ELSE b

FSub(a, b) == FAdd(a, FNeg(b))

FMul(a, b) ==
    IF IsNaN(a) \/ IsNaN(b) THEN NaN
    ELSE IF IsFinite(a) /\ IsFinite(b) THEN Sat(RDiv(a[1] * b[1], Scale))
    ELSE IF IsZero(a) \/ IsZero(b) THEN NaN
    ELSE <<Sign(a[1]) * Sign(b[1]), 0>>

FDiv(a, b) ==
    IF IsNaN(a) \/ IsNaN(b) THEN NaN
    ELSE IF IsInf(b)
    THEN (IF IsInf(a) THEN NaN ELSE Zero)
    ELSE IF IsZero(b)
    THEN (IF IsZero(a) THEN NaN ELSE <<Sign(a[1]), 0>>)
    ELSE IF IsInf(a) THEN <<Sign(a[1]) * Sign(b[1]), 0>>
    ELSE Sat(RDiv(a[1] * Scale, b[1]))

FAbs(a) == <<Abs(a[1]), a[2]>>

\* position on the extended number line, for values that are not NaN
Ord(a) == IF IsFinite(a) THEN a[1] ELSE a[1] * (MaxRaw + 1)

\* a > b, false when either is NaN
FGt(a, b) == ~IsNaN(a) /\ ~IsNaN(b) /\ Ord(a) > Ord(b)

FLt(a, b) == FGt(b, a)

RECURSIVE FSum(_)
FSum(s) == IF s = <<>> THEN Zero ELSE FAdd(Head(s), FSum(Tail(s)))

\* np.amax of a non-empty array of finite values
RECURSIVE FMax(_)
FMax(s) ==
    IF Len(s) = 1 THEN s[1]
    ELSE LET m == FMax(Tail(s)) IN IF FGt(s[1], m) THEN s[1] ELSE m

Column(m, j) == [i \in 1..Len(m) |-> m[i][j]]


(***************************************************************************)
(* Python values                                                           *)
(***************************************************************************)
\* An optional argument: None, or a supplied list of numbers
None == [some |-> FALSE, val |-> <<>>]

Some(v) == [some |-> TRUE, val |-> v]

\* A callable as inspect.getargspec sees it: nargs positional parameters,
\* the last ndef of them with defaults.  shape names what it computes;
\* NoFunc stands for peak_func=None.
NoFunc == [nargs |-> 0, ndef |-> 0, shape |-> "None"]

Func(n, d, sh) == [nargs |-> n, ndef |-> d, shape |-> sh]

\* Python's own arity check when f(x, x0, *extra) is called
CallBinds(f, nextra) ==
    /\ 2 + nextra >= f.nargs - f.ndef
    /\ 2 + nextra <= f.nargs

(***************************************************************************)
(* Peak shapes.  Angles of the simulator are integers (axis grid units).   *)
(***************************************************************************)
\* exp(-t) for t >= 0, sampled on three levels: 1 at t = 0, 1/2 for
\* 0 < t <= 1, and 0 beyond (the tail, down to floating-point underflow).
ExpNeg(t) ==
    IF IsNaN(t) THEN NaN
    ELSE IF IsInf(t) THEN Zero
    ELSE IF IsZero(t) THEN One
    ELSE IF ~FGt(t, One) THEN Frac(1, 2)
    ELSE Zero

gauss_peak_default(x, x0, w) ==
    LET t == FDiv(Num(x - x0), w)
    IN  ExpNeg(FMul(t, t))

gauss_func == Func(3, 0, "gauss")

\* A user-supplied peak function: a box of half-width 1 around the centre,
\* whatever extra parameters it declares.
box_peak(x, x0) == IF Abs(x - x0) <= 1 THEN One ELSE Zero

peak_value(f, x, x0, extra) ==
    IF f.shape = "gauss" THEN gauss_peak_default(x, x0, extra[1])
    ELSE box_peak(x, x0)

(***************************************************************************)
(* xrd_spec_simul                                                          *)
(***************************************************************************)
FirstOnly(l) == IF Len(l) = 0 THEN <<>> ELSE <<l[1]>>

DefaultWidth == Frac(1, 10)

\* Lines 302-313: the (function, extra arguments) pair the simulator uses,
\* or the error it raises.
simul_peak_setup(peak_func, peak_f_args) ==
    IF peak_func.shape # "None"
    THEN IF ~peak_f_args.some
         THEN [status |-> "TypeError", func |-> peak_func, args |-> <<>>]
         ELSE IF peak_func.nargs > 2 + Len(peak_f_args.val)
         THEN [status |-> "ValueError", func |-> peak_func,
               args |-> peak_f_args.val]
         ELSE [status |-> "ok", func |-> peak_func, args |-> peak_f_args.val]
    ELSE [status |-> "ok", func |-> gauss_func,
          args |-> IF ~peak_f_args.some THEN <<DefaultWidth>>
                   ELSE FirstOnly(peak_f_args.val)]

\* Lines 296-323.  xp is a peak-set object [theta2, intensity].
xrd_spec_simul(xp, th2_axis, peak_func, peak_f_args, baseline) ==
    LET su == simul_peak_setup(peak_func, peak_f_args)
        np == Len(xp.theta2)
        peaks == [i \in 1..Len(th2_axis) |->
                    [j \in 1..np |->
                        FMul(xp.intensity[j],
                             peak_value(su.func, th2_axis[i], xp.theta2[j],
                                        su.args))]]
        spec == [i \in 1..Len(th2_axis) |->
                    FAdd(FSum(peaks[i]), FMul(One, baseline))]
    IN  IF su.status # "ok"
        THEN [status |-> su.status, func |-> su.func, args |-> su.args,
              simul_spec |-> <<>>, simul_peaks |-> <<>>]
        ELSE IF ~CallBinds(su.func, Len(su.args))
        THEN [status |-> "TypeError", func |-> su.func, args |-> su.args,
              simul_spec |-> <<>>, simul_peaks |-> <<>>]
        ELSE [status |-> "ok", func |-> su.func, args |-> su.args,
              simul_spec |-> spec, simul_peaks |-> peaks]

(***************************************************************************)
(* Le Bail helpers                                                         *)
(***************************************************************************)
\* Lines 444-452.  The value kept is Rwp squared (the argument of np.sqrt),
\* so that it stays rational; a negative argument gives NaN as np.sqrt does.
Rwp_eval(simul_int, exp_int) ==
    LET n == Len(exp_int)
        weights == [i \in 1..n |-> FDiv(One, exp_int[i])]
        num == FSum([i \in 1..n |->
                 FMul(weights[i],
                      FMul(FSub(exp_int[i], simul_int[i]),
                           FSub(exp_int[i], simul_int[i])))])
        den == FSum([i \in 1..n |->
                 FMul(weights[i], FMul(exp_int[i], exp_int[i]))])
        q == FDiv(num, den)
    IN  IF q[1] < 0 THEN NaN ELSE q

\* Lines 458-460
rescale_sum_peaks(simul_peaks, j) ==
    LET s == FSum(Column(simul_peaks, j))
    IN  IF FGt(s, Zero) THEN s ELSE Inf

\* Lines 455-464
leBail_rescale_I(simul_peaks, simul_spec, exp_spec, np) ==
    [j \in 1..np |->
        FDiv(FSum([i \in 1..Len(exp_spec) |->
                     FDiv(FMul(exp_spec[i], simul_peaks[i][j]),
                          simul_spec[i])]),
             rescale_sum_peaks(simul_peaks, j))]

\* Lines 432-433: abs((rwp-rwp0)/rwp) < rwp_tol, decided exactly on the
\* squares q = rwp^2 and q0 = rwp0^2.  For finite r > 0 and r0 >= 0,
\*   |r - r0| < tol r  <=>  (1 - tol) r < r0 < (1 + tol) r;
\* a NaN or infinite quotient (r = 0, or a non-finite r or r0) compares false.
delta_below_tol(q, q0, tol) ==
    IF ~IsFinite(q) \/ ~IsFinite(q0) \/ IsZero(q) THEN FALSE
    ELSE LET lo == FSub(One, tol)
             hi == FAdd(One, tol)
         IN  /\ FGt(hi, Zero)
             /\ FLt(q0, FMul(FMul(hi, hi), q))
             /\ \/ FLt(lo, Zero)
                \/ FGt(q0, FMul(FMul(lo, lo), q))

(***************************************************************************)
(* XRDCalculator.set_peak_func                                             *)
(***************************************************************************)
\* The check of set_peak_func with defaulted parameters counted as required
set_peak_func_nodefaults(peak_func, peak_f_args) ==
    LET a == IF ~peak_f_args.some
             THEN (IF peak_func.shape # "None" THEN <<>>
                   ELSE <<Frac(1, 10)>>)
             ELSE peak_f_args.val
    IN  IF peak_func.shape # "None"
        THEN IF peak_func.nargs < 2 \/ peak_func.nargs - 2 > Len(a)
             THEN [status |-> "ValueError", func |-> peak_func, args |-> a]
             ELSE [status |-> "ok", func |-> peak_func, args |-> a]
        ELSE [status |-> "ok", func |-> Func(3, 0, "gauss"),
              args |-> IF Len(a) = 0 THEN <<>> ELSE <<a[1]>>]

\* Lines 116-145: the pair stored in _peak_func/_peak_f_args, or the error
set_peak_func(peak_func, peak_f_args) ==
    LET a == IF ~peak_f_args.some
             THEN (IF peak_func.shape # "None" THEN <<>>
                   ELSE <<DefaultWidth>>)
             ELSE peak_f_args.val
    IN  IF peak_func.shape # "None"
        THEN IF peak_func.nargs < 2
             THEN [status |-> "ValueError", func |-> peak_func, args |-> a]
             ELSE IF peak_func.nargs - (2 + peak_func.ndef) > Len(a)
             THEN [status |-> "ValueError", func |-> peak_func, args |-> a]
             ELSE [status |-> "ok", func |-> peak_func, args |-> a]
        ELSE [status |-> "ok", func |-> gauss_func, args |-> FirstOnly(a)]

(***************************************************************************)
(* XRDCalculator.powder_peaks.  Lattices are orthorhombic with integer     *)
(* cell lengths; inverse d-spacings are kept exact as squared rationals    *)
(* [n, d], and 2-theta angles are integers in units of 1e-7 degree.        *)
(***************************************************************************)
Rat(n, d) == LET g == GCD(Abs(n), Abs(d)) IN [n |-> n \div g, d |-> d \div g]

\* self.lambdax as an exact rational
LambdaRat(lambdax) == Rat(lambdax[1], Scale)

\* utils.hkl2d2_matgen for an orthorhombic cell: the diagonal quadratic form
\* diag(1/a^2, 1/b^2, 1/c^2), given by its three denominators
hkl2d2_matgen(abc) == <<abc[1] * abc[1], abc[2] * abc[2], abc[3] * abc[3]>>

\* utils.minimum_supcell: the smallest integer bounds whose box holds every
\* hkl with inverse d below inv_d_max = 2/lambda, ceil(2 x / lambda) per axis
CeilDiv(n, d) == -((-n) \div d)

minimum_supcell(lam, abc) ==
    [x \in 1..3 |-> CeilDiv(2 * abc[x] * lam.d, lam.n)]

\* Lines 209-216: np.meshgrid(hrange, krange, lrange) reshaped to (3, -1):
\* k varies slowest, then h, and l fastest
hkl_grid_of(bounds) ==
    LET nh == 2 * bounds[1] + 1
        nl == 2 * bounds[3] + 1
        nk == 2 * bounds[2] + 1
    IN  [t \in 1..(nh * nk * nl) |->
            <<(((t - 1) \div nl) % nh) - bounds[1],
              ((t - 1) \div (nl * nh)) - bounds[2],
              ((t - 1) % nl) - bounds[3]>>]

\* Lines 217-219: inverse d squared of one reflection
inv_d2(m, hkl) ==
    Rat(hkl[1] * hkl[1] * m[2] * m[3] + hkl[2] * hkl[2] * m[1] * m[3]
          + hkl[3] * hkl[3] * m[1] * m[2],
        m[1] * m[2] * m[3])

\* (inv_d / inv_d_max) squared, with inv_d_max = 2/lambda (line 203)
ratio2(lam, q) == Rat(q.n * lam.n * lam.n, q.d * 4 * lam.d * lam.d)

\* Line 224: 0 < inv_d < inv_d_max
valid_reflection(lam, m, hkl) ==
    LET x == ratio2(lam, inv_d2(m, hkl)) IN x.n > 0 /\ x.n < x.d

\* 2 * arcsin(sqrt(x)) * 180 / pi in units of 1e-7 degree, tabulated for the
\* ratios x = (inv_d / inv_d_max)^2 of the lattices and wavelengths below
Theta2Table ==
    <<4, 25>> :> 471563570 @@
    <<1, 4>> :> 600000000 @@
    <<25, 64>> :> 773643749 @@
    <<41, 100>> :> 796302402 @@
    <<4, 9>> :> 836206298 @@
    <<136, 225>> :> 1020572462 @@
    <<16, 25>> :> 1062602047 @@
    <<41, 64>> :> 1063348228 @@
    <<25, 36>> :> 1128853805 @@
    <<769, 900>> :> 1351445840 @@
    <<89, 100>> :> 1412605754 @@
    <<17, 18>> :> 1527339555

\* Lines 231, 237: theta = arcsin(inv_d / inv_d_max), 2 theta in degrees
theta2_of(lam, m, hkl) ==
    LET x == ratio2(lam, inv_d2(m, hkl)) IN Theta2Table[<<x.n, x.d>>]

RECURSIVE Pow10(_)
Pow10(k) == IF k = 0 THEN 1 ELSE 10 * Pow10(k - 1)

\* np.round(v, digits) on an angle in units of 1e-7 degree: to the nearest
\* multiple of 10^-digits degree, halves to the even multiple
np_round(v, digits) ==
    IF digits >= 7 THEN v
    ELSE LET u == Pow10(7 - digits)
             q == v \div u
             r == v % u
         IN  IF 2 * r > u \/ (2 * r = u /\ q % 2 = 1) THEN (q + 1) * u
             ELSE q * u

\* The selection rules of soprano.calculate.xrd.sel_rules: reflection
\* conditions of the lattice centrings
sel_rule_holds(rule, hkl) ==
    IF rule = "P" THEN TRUE
    ELSE IF rule = "I" THEN (hkl[1] + hkl[2] + hkl[3]) % 2 = 0
    ELSE IF rule = "F" THEN /\ (hkl[1] + hkl[2]) % 2 = 0
                            /\ (hkl[2] + hkl[3]) % 2 = 0
    ELSE (hkl[1] + hkl[2]) % 2 = 0

\* get_sel_rule_from_international(n, o): the rule, or "ValueError" when
\* the (number, setting) pair is not in the table
get_sel_rule_from_international(n, o) ==
    IF n = 1 /\ o = "all" THEN "P"
    ELSE IF n = 230 /\ o = "1" THEN "I"
    ELSE IF n = 225 /\ o = "1" THEN "F"
    ELSE IF n = 5 /\ o = "1" THEN "C"
    ELSE "ValueError"

\* get_sel_rule_from_hall(h): the rule, or "ValueError" when unknown
get_sel_rule_from_hall(h) ==
    IF h = 1 THEN "P"
    ELSE IF h = 530 THEN "I"
    ELSE IF h = 523 THEN "F"
    ELSE "ValueError"

\* Lines 224-226: the reflections of the grid inside the limiting sphere
valid_grid(lam, m, grid) ==
    SelectSeq(grid, LAMBDA hkl : valid_reflection(lam, m, hkl))

\* Lines 228-230: the reflections the selection rule allows
selected_complement(grid, rule) ==
    SelectSeq(grid, LAMBDA hkl : ~sel_rule_holds(rule, hkl))

selected_grid(grid, rule) ==
    SelectSeq(grid, LAMBDA hkl : sel_rule_holds(rule, hkl))

\* np.unique: the distinct values in ascending order
RECURSIVE SortedSeq(_)
SortedSeq(S) ==
    IF S = {} THEN <<>>
    ELSE LET lo == CHOOSE x \in S : \A y \in S : x <= y
         IN  <<lo>> \o SortedSeq(S \ {lo})

as_given(values) == values

np_unique(values) == SortedSeq({values[t] : t \in 1..Len(values)})

\* return_index of np.unique: the first position of value u
first_index(values, u) ==
    CHOOSE t \in 1..Len(values) :
        values[t] = u /\ \A t2 \in 1..(t - 1) : values[t2] # u

NoPeaks ==
    [theta2 |-> <<>>, hkl |-> <<>>, hkl_unique |-> <<>>, invd |-> <<>>,
     intensity |-> <<>>, lambdax |-> Zero]

\* Lines 237-253: round, merge and sort; build the XraySpectrum.  grid holds
\* the surviving reflections, th their angles, invd2 their inverse d squared
merge_peaks(grid, th, digits, lambdax, invd2) ==
    LET pos == [t \in 1..Len(grid) |-> t]
        rounded == [t \in 1..Len(grid) |-> np_round(th[t], digits)]
        uniq == np_unique(rounded)
        peak_n == Len(uniq)
        members == [i \in 1..peak_n |->
                      SelectSeq(pos, LAMBDA t : rounded[t] = uniq[i])]
    IN  [theta2 |-> uniq,
         hkl |-> [i \in 1..peak_n |->
                    [k \in 1..Len(members[i]) |-> grid[members[i][k]]]],
         hkl_unique |-> [i \in 1..Len(uniq) |->
                           grid[first_index(rounded, uniq[i])]],
         invd |-> [i \in 1..Len(uniq) |->
                     invd2[first_index(rounded, uniq[i])]],
         intensity |-> [i \in 1..peak_n |-> Zero],
         lambdax |-> lambdax]

\* Lines 203-255 for a resolved lattice and selection rule
enumerate_peaks(calc, abc, rule) ==
    LET lam == LambdaRat(calc.lambdax)
        m == hkl2d2_matgen(abc)
        grid == selected_grid(
                    valid_grid(lam, m, hkl_grid_of(minimum_supcell(lam, abc))),
                    rule)
    IN  merge_peaks(grid,
                    [t \in 1..Len(grid) |-> theta2_of(lam, m, grid[t])],
                    calc.theta2_digits, calc.lambdax,
                    [t \in 1..Len(grid) |-> inv_d2(m, grid[t])])

\* Lines 173-201: argument checks and selection-rule lookup.  atoms and
\* latt_abc are optional; an atoms object carries its cell (in abc form) and
\* the hall number spglib finds for it.
powder_peaks(calc, atoms, latt_abc, n, o) ==
    IF atoms.some = latt_abc.some
    THEN [status |-> "ValueError", xpeaks |-> NoPeaks]
    ELSE IF atoms.some
    THEN LET rule == get_sel_rule_from_hall(atoms.val.hall_number)
         IN  IF rule = "ValueError"
             THEN [status |-> "RuntimeWarning", xpeaks |-> NoPeaks]
             ELSE [status |-> "returned",
                   xpeaks |-> enumerate_peaks(calc, atoms.val.abc, rule)]
    ELSE IF latt_abc.val.shape # <<2, 3>>
    THEN [status |-> "ValueError", xpeaks |-> NoPeaks]
    ELSE LET rule == get_sel_rule_from_international(n, o)
         IN  IF rule = "ValueError"
             THEN [status |-> "RuntimeWarning", xpeaks |-> NoPeaks]
             ELSE [status |-> "returned",
                   xpeaks |-> enumerate_peaks(calc, latt_abc.val.abc, rule)]

(***************************************************************************)
(* State                                                                   *)
(***************************************************************************)
VARIABLES
    self,         \* the XRDCalculator object
    pc,           \* control state of the program
    call,         \* the arguments of the call in progress
    heap,         \* peak-set objects: the caller's and the refiner's clone
    xpeaks,       \* the object the local name xpeaks refers to
    peaks_int,    \* local array peaks_int of xrd_leBail_Ifit
    simul_spec,   \* simulated intensities (simul_spec.intensity)
    simul_peaks,  \* contribution matrix, [axis point][peak]
    rwp0,         \* Rwp squared of the previous simulation
    rwp,          \* Rwp squared of the last simulation, or unbound
    n_iter,       \* iterations of the refinement loop performed
    i_scale,      \* factors returned by the last _leBail_rescale_I
    ret,          \* outcome of the last call
    init_args,    \* the arguments the calculator was constructed with
    powder_xpeaks \* the XraySpectrum returned by the last powder_peaks

vars == <<self, pc, call, heap, xpeaks, peaks_int, simul_spec, simul_peaks,
          rwp0, rwp, n_iter, i_scale, ret, init_args, powder_xpeaks>>

calcvars == <<init_args, powder_xpeaks>>

fitvars == <<heap, xpeaks, peaks_int, simul_spec, simul_peaks, rwp0, rwp,
             n_iter, i_scale>>

Unbound == [bound |-> FALSE, v |-> NaN]

Bound(v) == [bound |-> TRUE, v |-> v]

NoObj == [theta2 |-> <<>>, intensity |-> <<>>]

NoRet == [status |-> "none", func |-> NoFunc, args |-> <<>>]

Raised(e) == [status |-> e, func |-> NoFunc, args |-> <<>>]

\* XRDCalculator() with every argument defaulted (lines 34-73)
DefaultLambdax == Frac(154056, 100000)

Theta2DigitsDefault == 6

\* Line 70: the value __init__ stores in self.theta2_digits
init_theta2_digits(theta2_digits) == 6

\* Lines 69-73: the object __init__ builds, given what set_peak_func stored
new_calculator(lambdax, theta2_digits, baseline, stored) ==
    [lambdax |-> lambdax, theta2_digits |-> init_theta2_digits(theta2_digits),
     baseline |-> baseline, peak_func |-> stored.func,
     peak_f_args |-> stored.args]

DefaultCalculator ==
    new_calculator(DefaultLambdax, Theta2DigitsDefault, Zero,
                   set_peak_func(NoFunc, None))

NoInitArgs ==
    [lambdax |-> Zero, theta2_digits |-> 0, baseline |-> Zero,
     peak_func |-> NoFunc, peak_f_args |-> None]

DefaultInitArgs ==
    [lambdax |-> DefaultLambdax, theta2_digits |-> Theta2DigitsDefault,
     baseline |-> Zero, peak_func |-> NoFunc, peak_f_args |-> None]


(***************************************************************************)
(* Inputs of the simulator and the refiner                                 *)
(***************************************************************************)
MaxIter == 2

MaxObs == 2

MaxInt == 1

\* The experimental 2-theta axis
Th2Axis == <<1, 2>>

\* Experimental intensities are positive counts
ObsLevels == {Num(k) : k \in 1..MaxObs}

IntLevels == {Num(k) : k \in 0..MaxInt}

\* Peak positions: none, one on the axis, two overlapping on the axis, one
\* on the axis and one too far from it to contribute
PeakPositions == {<<>>, <<1>>, <<1, 2>>, <<2, 4>>}

PeakSets ==
    UNION {{[theta2 |-> t, intensity |-> v] :
              v \in [1..Len(t) -> IntLevels]} : t \in PeakPositions}

box2 == Func(2, 0, "box")

box3 == Func(3, 0, "box")

box3d == Func(3, 1, "box")

ArgLists == {None, Some(<<>>), Some(<<One>>), Some(<<Num(2), One>>)}

PeakFuncs == {NoFunc, box2, box3, box3d}

\* (peak_func, peak_f_args) pairs handed to the refiner; Some(<<>>) is its
\* default peak_f_args=[]
RefinerPeakArgs ==
    {<<NoFunc, None>>, <<NoFunc, Some(<<>>)>>, <<NoFunc, Some(<<One>>)>>,
     <<NoFunc, Some(<<Num(2), One>>)>>, <<box2, Some(<<>>)>>,
     <<box3d, Some(<<One>>)>>, <<box3, Some(<<>>)>>}

Tolerances == {Frac(1, 100), Frac(1, 2)}

Baselines == {Zero, One}

NoCall ==
    [fn |-> "none", th2_axis |-> <<>>, int_axis |-> <<>>,
     peak_func |-> NoFunc, peak_f_args |-> None, baseline |-> Zero,
     rwp_tol |-> Zero, max_iter |-> 0]

RefinerCalls ==
    {[fn |-> "xrd_leBail_Ifit", th2_axis |-> Th2Axis, int_axis |-> e,
      peak_func |-> pa[1], peak_f_args |-> pa[2], baseline |-> b,
      rwp_tol |-> t, max_iter |-> m] :
        e \in [1..Len(Th2Axis) -> ObsLevels], pa \in RefinerPeakArgs,
        b \in Baselines, t \in Tolerances, m \in 0..MaxIter}

SimulCalls ==
    {[NoCall EXCEPT !.fn = "xrd_spec_simul", !.th2_axis = Th2Axis,
                    !.peak_func = f, !.peak_f_args = a, !.baseline = b] :
        f \in PeakFuncs, a \in ArgLists, b \in Baselines}

\* Most positional parameters of a function handed to set_peak_func, and
\* longest extra-argument list
MaxNargs == 5

MaxArgs == 2

\* Every signature with up to MaxNargs positional parameters, any number of
\* them (from the right) carrying a default value
Signatures ==
    {f \in {Func(n, d, "box") : n \in 0..MaxNargs, d \in 0..MaxNargs} :
        f.ndef <= f.nargs}

ExtraArgLists ==
    {None} \cup {Some([k \in 1..n |-> Num(k)]) : n \in 0..MaxArgs}

SetPeakFuncCalls ==
    {[NoCall EXCEPT !.fn = "set_peak_func", !.peak_func = f,
                    !.peak_f_args = a] :
        f \in {NoFunc} \cup Signatures, a \in ExtraArgLists}

\* A program that makes one call: set_peak_func on a default calculator,
\* xrd_spec_simul, or xrd_leBail_Ifit
InitFit ==
    /\ self = DefaultCalculator
    /\ pc = "call"
    /\ \/ call \in RefinerCalls /\ heap \in {[caller |-> o, clone |-> NoObj] :
                                               o \in PeakSets}
       \/ call \in SimulCalls /\ heap \in {[caller |-> o, clone |-> NoObj] :
                                             o \in PeakSets}
       \/ call \in SetPeakFuncCalls /\ heap = [caller |-> NoObj,
                                               clone |-> NoObj]
    /\ xpeaks = "caller"
    /\ peaks_int = <<>>
    /\ simul_spec = <<>>
    /\ simul_peaks = <<>>
    /\ rwp0 = NaN
    /\ rwp = Unbound
    /\ n_iter = 0
    /\ i_scale = <<>>
    /\ ret = NoRet
    /\ init_args = DefaultInitArgs
    /\ powder_xpeaks = NoPeaks

(***************************************************************************)
(* XRDCalculator.set_peak_func as a call (lines 91-145)                    *)
(***************************************************************************)
SetPeakFunc(peak_func, peak_f_args) ==
    LET r == set_peak_func(peak_func, peak_f_args)
    IN  /\ self' = IF r.status = "ok"
                   THEN [self EXCEPT !.peak_func = r.func,
                                     !.peak_f_args = r.args]
                   ELSE self
        /\ ret' = r

CallSetPeakFunc ==
    /\ pc = "call"
    /\ call.fn = "set_peak_func"
    /\ SetPeakFunc(call.peak_func, call.peak_f_args)
    /\ pc' = "done"
    /\ UNCHANGED <<call, fitvars, calcvars>>

(***************************************************************************)
(* xrd_spec_simul as a call (lines 258-323)                                *)
(***************************************************************************)
CallSpecSimul ==
    /\ pc = "call"
    /\ call.fn = "xrd_spec_simul"
    /\ LET r == xrd_spec_simul(heap.caller, call.th2_axis, call.peak_func,
                               call.peak_f_args, call.baseline)
       IN  /\ simul_spec' = r.simul_spec
           /\ simul_peaks' = r.simul_peaks
           /\ ret' = [status |-> IF r.status = "ok" THEN "returned"
                                 ELSE r.status,
                      func |-> r.func, args |-> r.args]
    /\ pc' = "done"
    /\ UNCHANGED <<self, call, heap, xpeaks, peaks_int, rwp0, rwp, n_iter,
                   i_scale, calcvars>>

(***************************************************************************)
(* xrd_leBail_Ifit (lines 348-437)                                         *)
(***************************************************************************)
\* Line 400: the clone becomes a separate object and xpeaks names it
copy_alias(h) == [heap |-> h, ref |-> "caller"]

copy_deepcopy(h) == [heap |-> [h EXCEPT !.clone = h.caller], ref |-> "clone"]

\* Line 407
starting_height(intensity, int_axis) ==
    [j \in 1..Len(intensity) |->
        FAdd(FMul(intensity[j], Zero), FDiv(FMax(int_axis), Num(4)))]

\* Line 423: np.copyto(xpeaks.intensity, peaks_int)
copyto_intensity(h, ref, values) == [h EXCEPT ![ref].intensity = values]

\* Lines 394-415: copy, starting heights, first simulation, first Rwp
LeBailEnter ==
    /\ pc = "call"
    /\ call.fn = "xrd_leBail_Ifit"
    /\ \E c \in {copy_deepcopy(heap)} :
       \E r \in {xrd_spec_simul(c.heap[c.ref], call.th2_axis, call.peak_func,
                                call.peak_f_args, call.baseline)} :
           /\ heap' = c.heap
           /\ xpeaks' = c.ref
           /\ peaks_int' = starting_height(c.heap[c.ref].intensity,
                                           call.int_axis)
           /\ simul_spec' = r.simul_spec
           /\ simul_peaks' = r.simul_peaks
           /\ IF r.status = "ok"
              THEN /\ rwp0' = Rwp_eval(r.simul_spec, call.int_axis)
                   /\ pc' = "loop"
                   /\ ret' = [NoRet EXCEPT !.func = r.func, !.args = r.args]
              ELSE /\ rwp0' = rwp0
                   /\ pc' = "done"
                   /\ ret' = [status |-> r.status, func |-> r.func,
                              args |-> r.args]
    /\ UNCHANGED <<self, call, rwp, n_iter, i_scale, calcvars>>

\* The loop body with the store (line 423) made after the recalculation
LeBailIterate_stale ==
    /\ pc = "loop"
    /\ n_iter < call.max_iter
    /\ \E f \in {leBail_rescale_I(simul_peaks, simul_spec, call.int_axis,
                                  Len(peaks_int))} :
       \E pint \in {[j \in 1..Len(peaks_int) |-> FMul(peaks_int[j], f[j])]} :
       \E r \in {xrd_spec_simul(heap[xpeaks], call.th2_axis, call.peak_func,
                                call.peak_f_args, call.baseline)} :
       \E q \in {Rwp_eval(r.simul_spec, call.int_axis)} :
           /\ i_scale' = f
           /\ peaks_int' = pint
           /\ heap' = [heap EXCEPT ![xpeaks].intensity = pint]
           /\ simul_spec' = r.simul_spec
           /\ simul_peaks' = r.simul_peaks
           /\ rwp' = [bound |-> TRUE, v |-> q]
           /\ IF delta_below_tol(q, rwp0, call.rwp_tol)
              THEN pc' = "break" /\ rwp0' = rwp0
              ELSE pc' = "loop" /\ rwp0' = q
    /\ n_iter' = n_iter + 1
    /\ UNCHANGED <<self, call, xpeaks, ret, calcvars>>

\* Lines 418-435: one pass of the loop body
LeBailIterate ==
    /\ pc = "loop"
    /\ n_iter < call.max_iter
    /\ \E f \in {leBail_rescale_I(simul_peaks, simul_spec, call.int_axis,
                                  Len(peaks_int))} :
       \E pint \in {[j \in 1..Len(peaks_int) |-> FMul(peaks_int[j], f[j])]} :
       \E h \in {copyto_intensity(heap, xpeaks, pint)} :
       \E r \in {xrd_spec_simul(h[xpeaks], call.th2_axis, call.peak_func,
                                call.peak_f_args, call.baseline)} :
       \E q \in {Rwp_eval(r.simul_spec, call.int_axis)} :
           /\ i_scale' = f
           /\ peaks_int' = pint
           /\ heap' = h
           /\ simul_spec' = r.simul_spec
           /\ simul_peaks' = r.simul_peaks
           /\ rwp' = Bound(q)
           /\ IF delta_below_tol(q, rwp0, call.rwp_tol)
              THEN pc' = "break" /\ rwp0' = rwp0
              ELSE pc' = "loop" /\ rwp0' = q
    /\ n_iter' = n_iter + 1
    /\ UNCHANGED <<self, call, xpeaks, ret, calcvars>>

\* Line 437: the return statement reads the local rwp
LeBailReturn ==
    /\ \/ pc = "break"
       \/ pc = "loop" /\ n_iter >= call.max_iter
    /\ pc' = "done"
    /\ ret' = [ret EXCEPT !.status = IF rwp.bound THEN "returned"
                                     ELSE "UnboundLocalError"]
    /\ UNCHANGED <<self, call, fitvars, calcvars>>

NextFit ==
    \/ CallSetPeakFunc
    \/ CallSpecSimul
    \/ LeBailEnter
    \/ LeBailIterate
    \/ LeBailReturn

SpecFit == InitFit /\ [][NextFit]_vars


(***************************************************************************)
(* The calculator as an object: construction, then any sequence of         *)
(* set_peak_func and powder_peaks calls                                    *)
(***************************************************************************)
Wavelengths == {Num(4), Num(5)}

DigitChoices == {-1, Theta2DigitsDefault}

\* Cell lengths (Angstrom) of the orthorhombic lattices tried
CellLengths == {<<3, 4, 5>>, <<2, 2, 3>>}

\* The functions of the test suite: bad_func(x), good_func(x, w, a, b, c=0.2)
bad_func == Func(1, 0, "box")

good_func == Func(5, 1, "box")

CalcPeakFuncs == {NoFunc, bad_func, good_func}

CalcArgLists == {None, Some(<<Zero>>), Some(<<Zero, Zero>>)}

LatticeArgs ==
    {None} \cup {Some([shape |-> <<2, 3>>, abc |-> l]) : l \in CellLengths}
           \cup {Some([shape |-> <<3>>, abc |-> <<3, 4, 5>>])}

AtomsArgs ==
    {None} \cup {Some([abc |-> l, hall_number |-> h]) :
                    l \in CellLengths, h \in {0, 1, 530}}

SpacegroupArgs ==
    {<<1, "all">>, <<230, "1">>, <<225, "1">>, <<5, "1">>, <<231, "1">>,
     <<230, "9">>}

\* powder_peaks(atoms, latt_abc, n, o): with a lattice, any spacegroup pair;
\* with atoms (or with neither, or both) n and o keep their defaults
PowderCalls ==
    {[fn |-> "powder_peaks", atoms |-> None, latt_abc |-> l, n |-> g[1],
      o |-> g[2]] : l \in LatticeArgs \ {None}, g \in SpacegroupArgs}
    \cup
    {[fn |-> "powder_peaks", atoms |-> a, latt_abc |-> l, n |-> 1,
      o |-> "all"] : a \in AtomsArgs,
                     l \in {None, Some([shape |-> <<2, 3>>,
                                        abc |-> <<3, 4, 5>>])}}

Init ==
    /\ self = DefaultCalculator
    /\ pc = "new"
    /\ call = NoCall
    /\ heap = [caller |-> NoObj, clone |-> NoObj]
    /\ xpeaks = "caller"
    /\ peaks_int = <<>>
    /\ simul_spec = <<>>
    /\ simul_peaks = <<>>
    /\ rwp0 = NaN
    /\ rwp = Unbound
    /\ n_iter = 0
    /\ i_scale = <<>>
    /\ ret = NoRet
    /\ init_args = NoInitArgs
    /\ powder_xpeaks = NoPeaks

\* Lines 34-73: XRDCalculator(lambdax, theta2_digits, baseline, peak_func,
\* peak_f_args)
Construct ==
    /\ pc = "new"
    /\ \E l \in Wavelengths, d \in DigitChoices, f \in CalcPeakFuncs,
          a \in CalcArgLists :
          LET r == set_peak_func(f, a)
          IN  /\ init_args' = [lambdax |-> l, theta2_digits |-> d,
                               baseline |-> Zero, peak_func |-> f,
                               peak_f_args |-> a]
              /\ ret' = r
              /\ IF r.status = "ok"
                 THEN /\ self' = new_calculator(l, d, Zero, r)
                      /\ pc' = "ready"
                 ELSE /\ self' = self
                      /\ pc' = "failed"
    /\ call' = [NoCall EXCEPT !.fn = "__init__"]
    /\ UNCHANGED <<fitvars, powder_xpeaks>>

CalcSetPeakFunc ==
    /\ pc = "ready"
    /\ \E f \in CalcPeakFuncs, a \in CalcArgLists :
          /\ SetPeakFunc(f, a)
          /\ call' = [NoCall EXCEPT !.fn = "set_peak_func", !.peak_func = f,
                                    !.peak_f_args = a]
    /\ powder_xpeaks' = NoPeaks
    /\ UNCHANGED <<pc, fitvars, init_args>>

\* Lines 147-255
CalcPowderPeaks ==
    /\ pc = "ready"
    /\ \E c \in PowderCalls :
       \E r \in {powder_peaks(self, c.atoms, c.latt_abc, c.n, c.o)} :
          /\ call' = c
          /\ ret' = [NoRet EXCEPT !.status = r.status]
          /\ powder_xpeaks' = r.xpeaks
    /\ UNCHANGED <<self, pc, fitvars, init_args>>

Next ==
    \/ Construct
    \/ CalcSetPeakFunc
    \/ CalcPowderPeaks

Spec == Init /\ [][Next]_vars

(***************************************************************************)
(* Properties of the refiner and the simulator                             *)
(***************************************************************************)
InRefiner == call.fn = "xrd_leBail_Ifit"

\* The peak function and arguments pass the simulator's checks and the call
WellFormedPeakArgs ==
    /\ simul_peak_setup(call.peak_func, call.peak_f_args).status = "ok"
    /\ CallBinds(simul_peak_setup(call.peak_func, call.peak_f_args).func,
                 Len(simul_peak_setup(call.peak_func, call.peak_f_args).args))

\* C1: xrd_leBail_Ifit never modifies the caller's peak set: no step of the
\* program, whatever the input and the number of iterations, changes any
\* field of the caller's object; the intensity writes go to the clone.
C1_CallerUnmodified == [][heap'.caller = heap.caller]_vars

\* C1 witness: the refiner returned after writing intensities that differ
\* from the caller's
C1_Witness ==
    /\ InRefiner
    /\ pc = "done"
    /\ ret.status = "returned"
    /\ n_iter >= 1
    /\ xpeaks = "clone"
    /\ heap.clone.intensity # heap.caller.intensity

\* C2: for well-formed inputs and every max_iter >= 0, the refiner performs
\* at most max_iter iterations and ends by returning the refined peak set,
\* the simulated spectrum, the contribution matrix and the final Rwp.
C2_ReturnsWithinBound ==
    (InRefiner /\ WellFormedPeakArgs) =>
        /\ n_iter <= call.max_iter
        /\ pc = "done" => (ret.status = "returned" /\ rwp.bound)

\* The width the default Gaussian is documented to get
ProvidedWidthOrDefault(a) ==
    IF a.some /\ Len(a.val) >= 1 THEN a.val[1] ELSE DefaultWidth

\* C3: whenever no peak function is supplied (set_peak_func, xrd_spec_simul,
\* xrd_leBail_Ifit), the peak function in effect is the default Gaussian
\* with exactly one extra argument: the first supplied value, else 0.1;
\* for an absent, an empty and a longer argument list alike.
C3_DefaultGaussianOneWidth ==
    (pc # "call" /\ call.peak_func.shape = "None") =>
        /\ ret.func = gauss_func
        /\ ret.args = <<ProvidedWidthOrDefault(call.peak_f_args)>>
        /\ call.fn = "set_peak_func" =>
              /\ self.peak_func = gauss_func
              /\ self.peak_f_args =
                     <<ProvidedWidthOrDefault(call.peak_f_args)>>

\* C9: the first simulation, the initial Rwp and the contribution matrix
\* fed to the first rescale are computed with every intensity of the clone
\* equal to max(experimental intensity)/4.
C9_FirstSimulationAtStartingHeight ==
    (InRefiner /\ pc = "loop" /\ n_iter = 0) =>
        LET start == [theta2 |-> heap[xpeaks].theta2,
                      intensity |->
                          [j \in 1..Len(heap[xpeaks].theta2) |->
                              FDiv(FMax(call.int_axis), Num(4))]]
            r == xrd_spec_simul(start, call.th2_axis, call.peak_func,
                                call.peak_f_args, call.baseline)
        IN  /\ simul_peaks = r.simul_peaks
            /\ simul_spec = r.simul_spec
            /\ rwp0 = Rwp_eval(r.simul_spec, call.int_axis)

\* The rescale factors with both guards in place: a term whose calc[i] is 0
\* counts as 0, a peak that contributes nowhere gets factor 0
guarded_rescale(peaks, spec, obs, np) ==
    [j \in 1..np |->
        IF IsZero(FSum(Column(peaks, j))) THEN Zero
        ELSE FDiv(FSum([i \in 1..Len(obs) |->
                          IF IsZero(spec[i]) THEN Zero
                          ELSE FDiv(FMul(obs[i], peaks[i][j]), spec[i])]),
                  FSum(Column(peaks, j)))]

\* C10: the rescale step never divides by zero and yields a defined factor
\* for every peak: factor 0 for a peak whose contributions sum to zero, a
\* zero term for every axis point whose calc[i] is 0.
C10_RescaleGuarded ==
    [][(InRefiner /\ n_iter' = n_iter + 1) =>
          /\ \A j \in 1..Len(i_scale') : IsFinite(i_scale'[j])
          /\ i_scale' = guarded_rescale(simul_peaks, simul_spec,
                                        call.int_axis, Len(peaks_int))]_vars

(***************************************************************************)
(* Properties of the calculator                                            *)
(***************************************************************************)
\* Positional parameters of f after the first two that carry no default
required_extra(f) ==
    Cardinality({p \in 3..f.nargs : p <= f.nargs - f.ndef})

\* Extra arguments the caller supplied, an absent list counting as none
supplied_extra(a) == IF a.some THEN Len(a.val) ELSE 0

InvalidPeakFunction(f, a) ==
    f.nargs < 2 \/ required_extra(f) > supplied_extra(a)

\* C4: set_peak_func with a supplied peak function fails with the invalid
\* peak function error exactly when the function has fewer than 2 positional
\* parameters or more non-default parameters beyond the first two than
\* extra arguments supplied; otherwise function and arguments are stored.
C4_ArityRule ==
    (call.fn = "set_peak_func" /\ pc = "done"
       /\ call.peak_func.shape # "None") =>
        IF InvalidPeakFunction(call.peak_func, call.peak_f_args)
        THEN ret.status = "ValueError"
        ELSE /\ ret.status = "ok"
             /\ self.peak_func = call.peak_func
             /\ self.peak_f_args = IF call.peak_f_args.some
                                   THEN call.peak_f_args.val ELSE <<>>

\* C4 witness: a function with a defaulted parameter was rejected for
\* missing arguments, its defaulted parameter not counting as required
C4_Witness ==
    /\ call.fn = "set_peak_func"
    /\ pc = "done"
    /\ call.peak_func.nargs >= 2
    /\ call.peak_func.ndef >= 1
    /\ call.peak_f_args.some
    /\ required_extra(call.peak_func) = Len(call.peak_f_args.val) + 1
    /\ ret.status = "ValueError"

InPowderPeaks == pc = "ready" /\ call.fn = "powder_peaks"

\* The lattice a powder_peaks call works on
CallLattice ==
    IF call.atoms.some THEN call.atoms.val.abc ELSE call.latt_abc.val.abc

\* The call passes the argument checks and its symmetry is not in the table
LookupFails ==
    /\ InPowderPeaks
    /\ call.atoms.some # call.latt_abc.some
    /\ IF call.atoms.some
       THEN get_sel_rule_from_hall(call.atoms.val.hall_number) = "ValueError"
       ELSE /\ call.latt_abc.val.shape = <<2, 3>>
            /\ get_sel_rule_from_international(call.n, call.o) = "ValueError"

\* powder_peaks on the same calculator and lattice with no selection rule
NoRulePeaks ==
    powder_peaks(self, None, Some([shape |-> <<2, 3>>, abc |-> CallLattice]),
                 1, "all").xpeaks

\* C5: when the selection-rule lookup fails, powder_peaks does not abort: it
\* returns the peak set of every reflection passing the inverse-d filter.
C5_LookupFailureContinues ==
    LookupFails => /\ ret.status = "returned"
                   /\ powder_xpeaks = NoRulePeaks

Range(s) == {s[t] : t \in 1..Len(s)}

\* C6: for a fixed lattice, wavelength and precision, powder_peaks with a
\* selection rule returns no more peaks than with none (spacegroup 1, setting
\* 'all'), and its merged angles are a subset of those without a rule.
C6_RuleOnlyRemoves ==
    (InPowderPeaks /\ ret.status = "returned") =>
        /\ Len(powder_xpeaks.theta2) <= Len(NoRulePeaks.theta2)
        /\ Range(powder_xpeaks.theta2) \subseteq Range(NoRulePeaks.theta2)

\* C6 witness: a selection rule was applied and removed at least one peak
C6_Witness ==
    /\ InPowderPeaks
    /\ ret.status = "returned"
    /\ ~call.atoms.some
    /\ call.n = 230
    /\ Len(powder_xpeaks.theta2) >= 1
    /\ Len(powder_xpeaks.theta2) < Len(NoRulePeaks.theta2)

PeakMembers ==
    UNION {{<<i, powder_xpeaks.hkl[i][k]>> :
              k \in 1..Len(powder_xpeaks.hkl[i])} :
           i \in 1..Len(powder_xpeaks.hkl)}

\* The 2-theta of a reflection rounded to the digits given at construction
rounded_as_constructed(hkl) ==
    np_round(theta2_of(LambdaRat(self.lambdax), hkl2d2_matgen(CallLattice),
                       hkl),
             init_args.theta2_digits)

\* C8: the precision powder_peaks rounds and merges with is the
\* theta2_digits the calculator was constructed with: two reflections fall
\* in the same peak exactly when their 2-theta in degrees are equal after
\* rounding to that many digits.
C8_MergesAtConstructedDigits ==
    (InPowderPeaks /\ ret.status = "returned") =>
        \A a \in PeakMembers : \A b \in PeakMembers :
            (a[1] = b[1]) <=>
                (rounded_as_constructed(a[2]) = rounded_as_constructed(b[2]))

(***************************************************************************)
(* Properties of the refinement loop                                       *)
(***************************************************************************)
\* |r - r0| / r0 < tol on the squares q = r^2 and q0 = r0^2: the change
\* relative to the previous Rwp r0.  For finite r0 > 0 and r >= 0,
\*   |r - r0| < tol r0  <=>  (1 - tol) r0 < r < (1 + tol) r0;
\* a NaN or infinite quotient (r0 = 0, or a non-finite value) compares false.
change_relative_to_previous(q, q0, tol) ==
    IF ~IsFinite(q) \/ ~IsFinite(q0) \/ IsZero(q0) THEN FALSE
    ELSE LET lo == FSub(One, tol)
             hi == FAdd(One, tol)
         IN  /\ FGt(hi, Zero)
             /\ FLt(q, FMul(FMul(hi, hi), q0))
             /\ \/ FLt(lo, Zero)
                \/ FGt(q, FMul(FMul(lo, lo), q0))

\* C11: after each iteration the loop stops as converged exactly when
\* |rwp_new - rwp_previous| / rwp_previous is below the tolerance, the
\* previous Rwp being the initial one for the first iteration; otherwise
\* rwp_previous becomes rwp_new and the loop continues.
C11_ConvergedRelativeToPrevious ==
    [][(InRefiner /\ n_iter' = n_iter + 1) =>
          /\ (pc' = "break") <=>
                 change_relative_to_previous(rwp'.v, rwp0, call.rwp_tol)
          /\ pc' # "break" => (pc' = "loop" /\ rwp0' = rwp'.v)]_vars

(***************************************************************************)
(* Properties relating the simulator to the calculator                     *)
(***************************************************************************)
InSimulator == call.fn = "xrd_spec_simul"

\* C12: with a custom peak function, xrd_spec_simul applies the arity rule
\* of set_peak_func: it rejects a (function, extra arguments) pair if and
\* only if set_peak_func rejects it, so a pair the calculator accepts is
\* accepted by the simulator.  A rejection is the ValueError of the
\* function's own check.
C12_SimulatorSameArityRule ==
    (InSimulator /\ pc = "done" /\ call.peak_func.shape # "None"
       /\ call.peak_f_args.some) =>
        ((ret.status = "ValueError") <=>
            (set_peak_func(call.peak_func, call.peak_f_args).status
                = "ValueError"))

(***************************************************************************)
(* Properties of the values the refiner returns                            *)
(***************************************************************************)
RefinerReturned == InRefiner /\ pc = "done" /\ ret.status = "returned"

\* C13: whenever xrd_leBail_Ifit returns, the returned spectrum and
\* contribution matrix are those obtained by simulating the returned peak set
\* (with its final intensities) on the experimental axis with the same peak
\* function, extra arguments and baseline; each spectrum point is the
\* baseline plus the sum of its row of the matrix; and the returned Rwp is
\* the Rwp of that spectrum against the experimental intensities, whether
\* the loop ended converged or exhausted.
C13_ReturnedValuesConsistent ==
    RefinerReturned =>
        LET r == xrd_spec_simul(heap[xpeaks], call.th2_axis, call.peak_func,
                                call.peak_f_args, call.baseline)
        IN  /\ r.status = "ok"
            /\ heap[xpeaks].intensity = peaks_int
            /\ simul_spec = r.simul_spec
            /\ simul_peaks = r.simul_peaks
            /\ Len(simul_spec) = Len(call.th2_axis)
            /\ \A i \in 1..Len(simul_spec) :
                  simul_spec[i] = FAdd(call.baseline, FSum(simul_peaks[i]))
            /\ rwp.bound
            /\ rwp.v = Rwp_eval(simul_spec, call.int_axis)

\* C13 witness: the refiner returned after two iterations, converged at the
\* second (the previous Rwp was kept), with intensities it has refined to
\* values that are neither zero nor the caller's
C13_Witness ==
    /\ RefinerReturned
    /\ n_iter = 2
    /\ IsFinite(rwp.v)
    /\ rwp0 # rwp.v
    /\ Len(heap[xpeaks].intensity) >= 1
    /\ \A j \in 1..Len(heap[xpeaks].intensity) :
          /\ IsFinite(heap[xpeaks].intensity[j])
          /\ ~IsZero(heap[xpeaks].intensity[j])
    /\ heap[xpeaks].intensity # heap.caller.intensity

====
